---- MODULE Spec2Model ----
(***************************************************************************)
(* HomeKit thermostat accessories of homeassistant/components/homekit      *)
(* (type_thermostats.py): the Thermostat bridge between a climate entity   *)
(* and the HomeKit Thermostat service, and the WaterHeater bridge, which   *)
(* uses the same service for a water heater.  A behaviour is the life of   *)
(* one accessory of either class.                                          *)
(*                                                                         *)
(* Temperatures are fixed-point numbers in tenths of a degree (21.0 is     *)
(* 210), so that the unit conversions and the 0.5-degree rounding of the   *)
(* source are computed and not assumed.  An attribute that may be absent   *)
(* is a sequence of length at most one: << >> is Python's None and <<v>>   *)
(* is the number v.  A characteristic is the value it holds plus the       *)
(* constraints declared for it; set_value stores the value it is given.    *)
(***************************************************************************)
EXTENDS Integers, Sequences, FiniteSets, TLC

VARIABLES
    unit,               \* self._unit, the configured temperature unit
    entity,             \* hass.states.get(entity_id): state and attributes
    self_chars,         \* self.chars, the optional characteristics enabled
    hc_homekit_to_hass, \* self.hc_homekit_to_hass, the reverse mode map
    props,              \* constraints declared for the characteristics
    char,               \* the value of every characteristic
    pushed,             \* update_state has run on the entity's present state
    last                \* what the last handler did: writes, calls, error

vars == <<unit, entity, self_chars, hc_homekit_to_hass, props, char, pushed, last>>

(***************************************************************************)
(* Constants of the source                                                 *)
(***************************************************************************)
HC_HEAT_COOL_OFF == 0
HC_HEAT_COOL_HEAT == 1
HC_HEAT_COOL_COOL == 2
HC_HEAT_COOL_AUTO == 3

HC_MIN_TEMP == 100
HEAT_COOL_DEADBAND == 50
DEFAULT_MIN_TEMP == 70
DEFAULT_MAX_TEMP == 350

SUPPORT_TARGET_TEMPERATURE == 1
SUPPORT_TARGET_HUMIDITY == 4
SUPPORT_TARGET_TEMPERATURE_RANGE == 2

TEMP_CELSIUS == "C"
TEMP_FAHRENHEIT == "F"

CHAR_TARGET_HEATING_COOLING == "TargetHeatingCoolingState"
CHAR_CURRENT_HEATING_COOLING == "CurrentHeatingCoolingState"
CHAR_CURRENT_TEMPERATURE == "CurrentTemperature"
CHAR_TARGET_TEMPERATURE == "TargetTemperature"
CHAR_TEMP_DISPLAY_UNITS == "TemperatureDisplayUnits"
CHAR_COOLING_THRESHOLD_TEMPERATURE == "CoolingThresholdTemperature"
CHAR_HEATING_THRESHOLD_TEMPERATURE == "HeatingThresholdTemperature"
CHAR_TARGET_HUMIDITY == "TargetRelativeHumidity"
CHAR_CURRENT_HUMIDITY == "CurrentRelativeHumidity"

SERVICE_SET_HVAC_MODE_THERMOSTAT == "set_hvac_mode"
SERVICE_SET_TEMPERATURE_THERMOSTAT == "set_temperature"
SERVICE_SET_HUMIDITY == "set_humidity"

(***************************************************************************)
(* Python values                                                           *)
(***************************************************************************)
None == << >>
Some(v) == <<v>>
IsNumber(x) == Len(x) = 1
\* an attribute that is not a number (a string such as "unknown") is a pair,
\* so that IsNumber fails; STRING_VALUE stands for the string where a
\* characteristic is given it
STRING_VALUE == -99999
Text == <<STRING_VALUE, STRING_VALUE>>
\* a number is true unless it is 0, a string unless it is empty
Truthy(x) == x # None /\ x[1] # 0
Min(a, b) == IF a <= b THEN a ELSE b
Max(a, b) == IF a >= b THEN a ELSE b
\* round(n / d) for d odd (no ties arise), n any integer
RoundDiv(n, d) == (2 * n + d) \div (2 * d)
\* features & flag, for a flag that is a power of two
HasFeature(features, flag) == (features \div flag) % 2 = 1

(***************************************************************************)
(* Mode tables                                                             *)
(***************************************************************************)
\* the keys of HC_HASS_TO_HOMEKIT in the order the dict literal lists them
HvacModeOrder == <<"off", "heat", "cool", "auto", "heat_cool", "dry", "fan_only">>
HvacModes == {HvacModeOrder[i] : i \in 1..Len(HvacModeOrder)}

HC_HASS_TO_HOMEKIT ==
    [s \in HvacModes |->
        CASE s = "off" -> HC_HEAT_COOL_OFF
          [] s = "heat" -> HC_HEAT_COOL_HEAT
          [] s = "cool" -> HC_HEAT_COOL_COOL
          [] s = "auto" -> HC_HEAT_COOL_AUTO
          [] s = "heat_cool" -> HC_HEAT_COOL_AUTO
          [] s = "dry" -> HC_HEAT_COOL_COOL
          [] s = "fan_only" -> HC_HEAT_COOL_COOL]

HC_HASS_TO_HOMEKIT_ACTION ==
    [a \in {"off", "idle", "heating", "cooling", "drying", "fan"} |->
        CASE a = "off" -> HC_HEAT_COOL_OFF
          [] a = "idle" -> HC_HEAT_COOL_OFF
          [] a = "heating" -> HC_HEAT_COOL_HEAT
          [] a = "cooling" -> HC_HEAT_COOL_COOL
          [] a = "drying" -> HC_HEAT_COOL_COOL
          [] a = "fan" -> HC_HEAT_COOL_COOL]

UNIT_HASS_TO_HOMEKIT == [u \in {TEMP_CELSIUS, TEMP_FAHRENHEIT} |-> IF u = TEMP_CELSIUS THEN 0 ELSE 1]

\* the modes used when the entity has no hvac_modes attribute yet
FallbackModes == {"heat", "cool", "heat_cool", "off"}

\* hc_modes of __init__: the attribute, or the fallback when it is None
HcModes(hvac_modes) == IF hvac_modes = None THEN FallbackModes ELSE hvac_modes[1]

\* KeepMode with dry and fan_only left out whether or not cool is supported
KeepModeDropsDry(s, hc_modes) ==
    /\ s \in hc_modes
    /\ ~ \/ (s = "auto" /\ "heat_cool" \in hc_modes)
         \/ s \in {"dry", "fan_only"}

\* KeepMode with the preference between auto and heat_cool the other way round
KeepModePrefersAuto(s, hc_modes) ==
    /\ s \in hc_modes
    /\ ~ \/ (s = "heat_cool" /\ "auto" \in hc_modes)
         \/ (s \in {"dry", "fan_only"} /\ "cool" \in hc_modes)

\* KeepMode without the preference of cool over dry and fan_only
KeepModeKeepsDry(s, hc_modes) ==
    /\ s \in hc_modes
    /\ ~ (s = "auto" /\ "heat_cool" \in hc_modes)

\* KeepMode keeping every mode of the table, supported or not
KeepModeUnsupported(s, hc_modes) ==
    ~ \/ (s = "auto" /\ "heat_cool" \in hc_modes)
      \/ (s \in {"dry", "fan_only"} /\ "cool" \in hc_modes)

\* the condition of the dict comprehension that builds hc_homekit_to_hass
KeepMode(s, hc_modes) ==
    /\ s \in hc_modes
    /\ ~ \/ (s = "auto" /\ "heat_cool" \in hc_modes)
         \/ (s \in {"dry", "fan_only"} /\ "cool" \in hc_modes)

\* a dict comprehension {c: s for s, c in ...}: a later pair replaces an
\* earlier one with the same key
RECURSIVE ReverseFrom(_, _, _)
ReverseFrom(i, hc_modes, acc) ==
    IF i > Len(HvacModeOrder) THEN acc
    ELSE LET s == HvacModeOrder[i]
             c == HC_HASS_TO_HOMEKIT[s]
         IN  IF KeepMode(s, hc_modes)
             THEN ReverseFrom(i + 1, hc_modes,
                      [k \in (DOMAIN acc) \cup {c} |-> IF k = c THEN s ELSE acc[k]])
             ELSE ReverseFrom(i + 1, hc_modes, acc)

BuildReverseMap(hc_modes) == ReverseFrom(1, hc_modes, << >>)

(***************************************************************************)
(* Unit conversion and the temperature range                               *)
(***************************************************************************)
\* to Celsius, one decimal
temperature_to_homekit(temp, u) ==
    IF u = TEMP_FAHRENHEIT THEN RoundDiv((temp - 320) * 5, 9) ELSE temp

\* from Celsius to the unit, rounded to half a degree
temperature_to_states(temp, u) ==
    IF u = TEMP_FAHRENHEIT THEN 5 * RoundDiv(9 * temp + 1600, 25)
    ELSE 5 * RoundDiv(temp, 5)

\* the conversions pass None through
OptToHomekit(x, u) == IF IsNumber(x) THEN Some(temperature_to_homekit(x[1], u)) ELSE None

\* round(x * 2) / 2
RoundHalf(t) == 5 * RoundDiv(t, 5)

get_temperature_range(e, u) ==
    LET max_temp == IF Truthy(e.max_temp)
                    THEN temperature_to_homekit(e.max_temp[1], u)
                    ELSE DEFAULT_MAX_TEMP
        min_temp == IF Truthy(e.min_temp)
                    THEN temperature_to_homekit(e.min_temp[1], u)
                    ELSE DEFAULT_MIN_TEMP
    IN  [min_temp |-> RoundHalf(min_temp), max_temp |-> RoundHalf(max_temp)]

(***************************************************************************)
(* Construction                                                            *)
(***************************************************************************)
\* self.chars: the optional characteristics the feature flags enable
ExtraChars(features) ==
    (IF HasFeature(features, SUPPORT_TARGET_TEMPERATURE_RANGE)
     THEN {CHAR_COOLING_THRESHOLD_TEMPERATURE, CHAR_HEATING_THRESHOLD_TEMPERATURE}
     ELSE {})
    \cup
    (IF HasFeature(features, SUPPORT_TARGET_HUMIDITY)
     THEN {CHAR_TARGET_HUMIDITY, CHAR_CURRENT_HUMIDITY}
     ELSE {})

\* the value every configure_char call of __init__ gives its characteristic;
\* the target mode is given none and starts at 0
DefaultValue(c) ==
    CASE c = CHAR_CURRENT_HEATING_COOLING -> 0
      [] c = CHAR_TARGET_HEATING_COOLING -> 0
      [] c = CHAR_CURRENT_TEMPERATURE -> 210
      [] c = CHAR_TARGET_TEMPERATURE -> 210
      [] c = CHAR_TEMP_DISPLAY_UNITS -> 0
      [] c = CHAR_COOLING_THRESHOLD_TEMPERATURE -> 230
      [] c = CHAR_HEATING_THRESHOLD_TEMPERATURE -> 190
      [] c = CHAR_TARGET_HUMIDITY -> 50
      [] c = CHAR_CURRENT_HUMIDITY -> 50

BaseChars ==
    {CHAR_CURRENT_HEATING_COOLING, CHAR_TARGET_HEATING_COOLING,
     CHAR_CURRENT_TEMPERATURE, CHAR_TARGET_TEMPERATURE, CHAR_TEMP_DISPLAY_UNITS}

ConfiguredChars(e) == [c \in BaseChars \cup ExtraChars(e.supported_features) |-> DefaultValue(c)]

\* valid_values of the target mode, and PROP_MIN_VALUE / PROP_MAX_VALUE of the
\* target temperature and of the two thresholds
DeclaredProps(e, u) ==
    LET range == get_temperature_range(e, u)
    IN  [valid_values |-> DOMAIN BuildReverseMap(HcModes(e.hvac_modes)),
         min_value |-> Max(range.min_temp, HC_MIN_TEMP),
         max_value |-> range.max_temp]

(***************************************************************************)
(* update_state: entity -> HomeKit                                         *)
(***************************************************************************)
\* characteristic.set_value(v); acc is the characteristics and the set of
\* those written so far in this call
SetValue(acc, c, v) ==
    [char |-> [acc.char EXCEPT ![c] = v], writes |-> acc.writes \cup {c}]

SetIfChanged(acc, c, v) == IF acc.char[c] # v THEN SetValue(acc, c, v) ELSE acc

UpdateTargetMode(acc, snap) ==
    IF snap.state # "" /\ snap.state \in DOMAIN HC_HASS_TO_HOMEKIT
    THEN SetIfChanged(acc, CHAR_TARGET_HEATING_COOLING, HC_HASS_TO_HOMEKIT[snap.state])
    ELSE acc

UpdateCurrentMode(acc, snap) ==
    IF snap.hvac_action # ""
    THEN SetIfChanged(acc, CHAR_CURRENT_HEATING_COOLING,
                      HC_HASS_TO_HOMEKIT_ACTION[snap.hvac_action])
    ELSE acc

UpdateCurrentTemp(acc, snap, u) ==
    IF IsNumber(snap.current_temperature)
    THEN SetIfChanged(acc, CHAR_CURRENT_TEMPERATURE,
                      temperature_to_homekit(snap.current_temperature[1], u))
    ELSE acc

UpdateCurrentHumidity(acc, snap, chars) ==
    IF CHAR_CURRENT_HUMIDITY \in chars /\ IsNumber(snap.current_humidity)
    THEN SetIfChanged(acc, CHAR_CURRENT_HUMIDITY, snap.current_humidity[1])
    ELSE acc

UpdateTargetHumidity(acc, snap, chars) ==
    IF CHAR_TARGET_HUMIDITY \in chars /\ IsNumber(snap.humidity)
    THEN SetIfChanged(acc, CHAR_TARGET_HUMIDITY, snap.humidity[1])
    ELSE acc

\* the cooling branch comparing the cooling characteristic's own value
UpdateCoolingThresholdOwn(acc, snap, u) ==
    IF CHAR_COOLING_THRESHOLD_TEMPERATURE \in DOMAIN acc.char
       /\ IsNumber(snap.target_temp_high)
    THEN SetIfChanged(acc, CHAR_COOLING_THRESHOLD_TEMPERATURE,
                      temperature_to_homekit(snap.target_temp_high[1], u))
    ELSE acc

\* the cooling branch compares the HEATING characteristic's value and writes
\* the cooling one
UpdateCoolingThreshold(acc, snap, u) ==
    IF CHAR_COOLING_THRESHOLD_TEMPERATURE \in DOMAIN acc.char
       /\ IsNumber(snap.target_temp_high)
    THEN LET cooling_thresh == temperature_to_homekit(snap.target_temp_high[1], u)
         IN  IF acc.char[CHAR_HEATING_THRESHOLD_TEMPERATURE] # cooling_thresh
             THEN SetValue(acc, CHAR_COOLING_THRESHOLD_TEMPERATURE, cooling_thresh)
             ELSE acc
    ELSE acc

UpdateHeatingThreshold(acc, snap, u) ==
    IF CHAR_HEATING_THRESHOLD_TEMPERATURE \in DOMAIN acc.char
       /\ IsNumber(snap.target_temp_low)
    THEN SetIfChanged(acc, CHAR_HEATING_THRESHOLD_TEMPERATURE,
                      temperature_to_homekit(snap.target_temp_low[1], u))
    ELSE acc

\* target_temp as it stands before the final write of update_state
DerivedTargetTemp(acc, snap, u) ==
    IF IsNumber(snap.temperature)
    THEN Some(temperature_to_homekit(snap.temperature[1], u))
    ELSE IF HasFeature(snap.supported_features, SUPPORT_TARGET_TEMPERATURE_RANGE)
    THEN LET hc_hvac_mode == acc.char[CHAR_TARGET_HEATING_COOLING]
         IN  IF hc_hvac_mode = HC_HEAT_COOL_HEAT
             THEN OptToHomekit(snap.target_temp_low, u)
             ELSE IF hc_hvac_mode = HC_HEAT_COOL_COOL
             THEN OptToHomekit(snap.target_temp_high, u)
             ELSE snap.temperature
    ELSE snap.temperature

\* if target_temp and self.char_target_temp.value != target_temp
WriteTargetTemp(acc, target_temp) ==
    IF Truthy(target_temp) /\ acc.char[CHAR_TARGET_TEMPERATURE] # target_temp[1]
    THEN SetValue(acc, CHAR_TARGET_TEMPERATURE, target_temp[1])
    ELSE acc

UpdateTargetTemp(acc, snap, u) == WriteTargetTemp(acc, DerivedTargetTemp(acc, snap, u))

UpdateDisplayUnits(acc, u) ==
    IF u # "" /\ u \in DOMAIN UNIT_HASS_TO_HOMEKIT
    THEN SetIfChanged(acc, CHAR_TEMP_DISPLAY_UNITS, UNIT_HASS_TO_HOMEKIT[u])
    ELSE acc

\* update_state with the target temperature derived before the target mode
\* is updated
update_state_TargetFirst(ch, snap, chars, u) ==
    LET a0 == [char |-> ch, writes |-> {}]
        a1 == UpdateTargetTemp(a0, snap, u)
        a2 == UpdateTargetMode(a1, snap)
        a3 == UpdateCurrentMode(a2, snap)
        a4 == UpdateCurrentTemp(a3, snap, u)
        a5 == UpdateCurrentHumidity(a4, snap, chars)
        a6 == UpdateTargetHumidity(a5, snap, chars)
        a7 == UpdateCoolingThreshold(a6, snap, u)
        a8 == UpdateHeatingThreshold(a7, snap, u)
    IN  UpdateDisplayUnits(a8, u)

\* Thermostat.update_state(new_state) on the characteristics ch: the
\* characteristics after the call and the set of those it wrote
update_state(ch, snap, chars, u) ==
    LET a0 == [char |-> ch, writes |-> {}]
        a1 == UpdateTargetMode(a0, snap)
        a2 == UpdateCurrentMode(a1, snap)
        a3 == UpdateCurrentTemp(a2, snap, u)
        a4 == UpdateCurrentHumidity(a3, snap, chars)
        a5 == UpdateTargetHumidity(a4, snap, chars)
        a6 == UpdateCoolingThreshold(a5, snap, u)
        a7 == UpdateHeatingThreshold(a6, snap, u)
        a8 == UpdateTargetTemp(a7, snap, u)
    IN  UpdateDisplayUnits(a8, u)

(***************************************************************************)
(* _set_chars: HomeKit -> entity                                           *)
(***************************************************************************)
\* one call_service: the service, its parameters (absent ones are None) and
\* the characteristics its description lists
Call(service, hvac_mode, temperature, high, low, humidity, events) ==
    [service |-> service, hvac_mode |-> hvac_mode, temperature |-> temperature,
     target_temp_high |-> high, target_temp_low |-> low, humidity |-> humidity,
     events |-> events]

\* ModeStaged without the comparison that ignores a repeated mode
ModeStagedAlways(char_values, e) ==
    CHAR_TARGET_HEATING_COOLING \in DOMAIN char_values

\* the target mode is in the write and differs from the entity's mode
ModeStaged(char_values, e) ==
    /\ CHAR_TARGET_HEATING_COOLING \in DOMAIN char_values
    /\ char_values[CHAR_TARGET_HEATING_COOLING] # HC_HASS_TO_HOMEKIT[e.state]

\* the target temperature is in the write and the entity has a single setpoint
TemperatureStaged(char_values, e) ==
    /\ CHAR_TARGET_TEMPERATURE \in DOMAIN char_values
    /\ HasFeature(e.supported_features, SUPPORT_TARGET_TEMPERATURE)

\* WithRoutedTarget with the target temperature replacing a threshold that is
\* in the write
WithRoutedTargetOverriding(char_values, e) ==
    LET routed == /\ CHAR_TARGET_TEMPERATURE \in DOMAIN char_values
                  /\ ~ HasFeature(e.supported_features, SUPPORT_TARGET_TEMPERATURE)
                  /\ HasFeature(e.supported_features, SUPPORT_TARGET_TEMPERATURE_RANGE)
        homekit_hvac_mode == HC_HASS_TO_HOMEKIT[e.state]
        added == (IF routed /\ homekit_hvac_mode = HC_HEAT_COOL_HEAT
                  THEN {CHAR_HEATING_THRESHOLD_TEMPERATURE} ELSE {})
                 \cup (IF routed /\ homekit_hvac_mode = HC_HEAT_COOL_COOL
                       THEN {CHAR_COOLING_THRESHOLD_TEMPERATURE} ELSE {})
    IN  [c \in (DOMAIN char_values) \cup added |->
            IF c \in added THEN char_values[CHAR_TARGET_TEMPERATURE] ELSE char_values[c]]

\* char_values after the target-temperature branch: on an entity with a
\* range only, the target temperature becomes the threshold of the entity's
\* mode, unless that threshold is in the write already
WithRoutedTarget(char_values, e) ==
    LET routed == /\ CHAR_TARGET_TEMPERATURE \in DOMAIN char_values
                  /\ ~ HasFeature(e.supported_features, SUPPORT_TARGET_TEMPERATURE)
                  /\ HasFeature(e.supported_features, SUPPORT_TARGET_TEMPERATURE_RANGE)
        homekit_hvac_mode == HC_HASS_TO_HOMEKIT[e.state]
        heat == routed /\ homekit_hvac_mode = HC_HEAT_COOL_HEAT
                       /\ CHAR_HEATING_THRESHOLD_TEMPERATURE \notin DOMAIN char_values
        cool == routed /\ homekit_hvac_mode = HC_HEAT_COOL_COOL
                       /\ CHAR_COOLING_THRESHOLD_TEMPERATURE \notin DOMAIN char_values
        added == (IF heat THEN {CHAR_HEATING_THRESHOLD_TEMPERATURE} ELSE {})
                 \cup (IF cool THEN {CHAR_COOLING_THRESHOLD_TEMPERATURE} ELSE {})
    IN  [c \in (DOMAIN char_values) \cup added |->
            IF c \in added THEN char_values[CHAR_TARGET_TEMPERATURE] ELSE char_values[c]]

ThresholdStaged(values) ==
    \/ CHAR_HEATING_THRESHOLD_TEMPERATURE \in DOMAIN values
    \/ CHAR_COOLING_THRESHOLD_TEMPERATURE \in DOMAIN values

\* ReconcileThresholds without the deadband
ReconcileNoDeadband(values, ch) ==
    [high |-> IF CHAR_COOLING_THRESHOLD_TEMPERATURE \in DOMAIN values
              THEN values[CHAR_COOLING_THRESHOLD_TEMPERATURE]
              ELSE ch[CHAR_COOLING_THRESHOLD_TEMPERATURE],
     low |-> IF CHAR_HEATING_THRESHOLD_TEMPERATURE \in DOMAIN values
             THEN values[CHAR_HEATING_THRESHOLD_TEMPERATURE]
             ELSE ch[CHAR_HEATING_THRESHOLD_TEMPERATURE]]

\* high and low as they stand before the clamp: the characteristics' values,
\* overlaid by the written ones, the other bound moved by the deadband
ReconcileThresholds(values, ch) ==
    LET high0 == ch[CHAR_COOLING_THRESHOLD_TEMPERATURE]
        low0 == ch[CHAR_HEATING_THRESHOLD_TEMPERATURE]
        cooling == CHAR_COOLING_THRESHOLD_TEMPERATURE \in DOMAIN values
        heating == CHAR_HEATING_THRESHOLD_TEMPERATURE \in DOMAIN values
        high1 == IF cooling THEN values[CHAR_COOLING_THRESHOLD_TEMPERATURE] ELSE high0
        low1 == IF cooling /\ high1 < low0 THEN high1 - HEAT_COOL_DEADBAND ELSE low0
        low2 == IF heating THEN values[CHAR_HEATING_THRESHOLD_TEMPERATURE] ELSE low1
        high2 == IF heating /\ low2 > high1 THEN low2 + HEAT_COOL_DEADBAND ELSE high1
    IN  [high |-> high2, low |-> low2]

\* high = min(high, max_temp); low = max(low, min_temp)
ClampThresholds(b, range) ==
    [high |-> Min(b.high, range.max_temp), low |-> Max(b.low, range.min_temp)]

\* StagedService with the service staged first kept
StagedServiceFirst(char_values, values, e) ==
    IF ModeStaged(char_values, e) THEN SERVICE_SET_HVAC_MODE_THERMOSTAT
    ELSE IF ThresholdStaged(values) \/ TemperatureStaged(char_values, e)
    THEN SERVICE_SET_TEMPERATURE_THERMOSTAT
    ELSE ""

\* the service of the climate call: the one staged last, "" when none is
StagedService(char_values, values, e) ==
    IF ThresholdStaged(values) \/ TemperatureStaged(char_values, e)
    THEN SERVICE_SET_TEMPERATURE_THERMOSTAT
    ELSE IF ModeStaged(char_values, e) THEN SERVICE_SET_HVAC_MODE_THERMOSTAT
    ELSE ""

\* events: one entry for every field staged, in the order of the branches
StagedEvents(char_values, values, e) ==
    (IF ModeStaged(char_values, e) THEN <<CHAR_TARGET_HEATING_COOLING>> ELSE << >>)
    \o (IF TemperatureStaged(char_values, e) THEN <<CHAR_TARGET_TEMPERATURE>> ELSE << >>)
    \o (IF CHAR_COOLING_THRESHOLD_TEMPERATURE \in DOMAIN values
        THEN <<CHAR_COOLING_THRESHOLD_TEMPERATURE>> ELSE << >>)
    \o (IF CHAR_HEATING_THRESHOLD_TEMPERATURE \in DOMAIN values
        THEN <<CHAR_HEATING_THRESHOLD_TEMPERATURE>> ELSE << >>)

\* the one climate call of _set_chars, made when a service was staged; b is
\* high and low after the clamp
ClimateCall(char_values, values, b, e, rev, u) ==
    Call(StagedService(char_values, values, e),
         IF ModeStaged(char_values, e)
         THEN Some(rev[char_values[CHAR_TARGET_HEATING_COOLING]]) ELSE None,
         IF TemperatureStaged(char_values, e)
         THEN Some(temperature_to_states(char_values[CHAR_TARGET_TEMPERATURE], u)) ELSE None,
         IF ThresholdStaged(values) THEN Some(temperature_to_states(b.high, u)) ELSE None,
         IF ThresholdStaged(values) THEN Some(temperature_to_states(b.low, u)) ELSE None,
         None,
         StagedEvents(char_values, values, e))

\* set_target_humidity(value)
HumidityCall(value) ==
    Call(SERVICE_SET_HUMIDITY, None, None, None, None, Some(value), << >>)

\* SetCharsError raising for every staged mode, in the reverse map or not
SetCharsErrorAlways(char_values, e, ch, rev) ==
    IF e.state \notin DOMAIN HC_HASS_TO_HOMEKIT THEN "KeyError"
    ELSE IF ModeStaged(char_values, e) THEN "KeyError"
    ELSE IF ThresholdStaged(WithRoutedTarget(char_values, e))
            /\ CHAR_COOLING_THRESHOLD_TEMPERATURE \notin DOMAIN ch THEN "AttributeError"
    ELSE ""

\* the exception _set_chars ends with, "" when it returns
SetCharsError(char_values, e, ch, rev) ==
    IF e.state \notin DOMAIN HC_HASS_TO_HOMEKIT THEN "KeyError"
    ELSE IF ModeStaged(char_values, e)
            /\ char_values[CHAR_TARGET_HEATING_COOLING] \notin DOMAIN rev THEN "KeyError"
    ELSE IF ThresholdStaged(WithRoutedTarget(char_values, e))
            /\ CHAR_COOLING_THRESHOLD_TEMPERATURE \notin DOMAIN ch THEN "AttributeError"
    ELSE ""

\* _set_chars from the threshold branch on; values is char_values after the
\* target-temperature branch, b is high and low before the clamp
SetCharsCalls(char_values, values, b, e, rev, u) ==
    [calls |->
        (IF StagedService(char_values, values, e) # ""
         THEN <<ClimateCall(char_values, values,
                            ClampThresholds(b, get_temperature_range(e, u)), e, rev, u)>>
         ELSE << >>)
        \o (IF CHAR_TARGET_HUMIDITY \in DOMAIN char_values
            THEN <<HumidityCall(char_values[CHAR_TARGET_HUMIDITY])>> ELSE << >>),
     error |-> "",
     high_low |-> IF ThresholdStaged(values) THEN <<b.high, b.low>> ELSE None]

SetCharsStaged(char_values, values, e, ch, rev, u) ==
    SetCharsCalls(char_values, values, ReconcileThresholds(values, ch), e, rev, u)

SetCharsRaised(error) == [calls |-> << >>, error |-> error, high_low |-> None]

SetCharsOutcome(error, char_values, e, ch, rev, u) ==
    IF error # "" THEN SetCharsRaised(error)
    ELSE SetCharsStaged(char_values, WithRoutedTarget(char_values, e), e, ch, rev, u)

\* Thermostat._set_chars(char_values): the service calls it makes, the
\* exception it ends with, and high/low before the clamp
set_chars(char_values, e, ch, rev, u) ==
    SetCharsOutcome(SetCharsError(char_values, e, ch, rev), char_values, e, ch, rev, u)

(***************************************************************************)
(* State machine                                                           *)
(***************************************************************************)
\* what a handler leaves behind; the fields a handler does not set are empty
Did(op, repeat, writes, req, calls, error, high_low) ==
    [op |-> op, repeat |-> repeat, writes |-> writes, req |-> req,
     calls |-> calls, error |-> error, high_low |-> high_low]

\* the attributes of an entity that do not change while the accessory lives
SameDevice(a, b) ==
    /\ a.supported_features = b.supported_features
    /\ a.hvac_modes = b.hvac_modes
    /\ a.min_temp = b.min_temp
    /\ a.max_temp = b.max_temp

\* the end of __init__: r is what update_state(state) did to the configured
\* characteristics
Constructed(r) ==
    /\ char = r.char
    /\ last = Did("init", FALSE, r.writes, << >>, << >>, "", None)

\* Thermostat.__init__ on the entity e with the configured unit u
Construct(e, u) ==
    /\ unit = u
    /\ entity = e
    /\ self_chars = ExtraChars(e.supported_features)
    /\ hc_homekit_to_hass = BuildReverseMap(HcModes(e.hvac_modes))
    /\ props = DeclaredProps(e, u)
    /\ Constructed(update_state(ConfiguredChars(e), e, ExtraChars(e.supported_features), u))
    /\ pushed = TRUE

\* the state machine of the platform stores a new state of the entity
StateChanged(snap) ==
    /\ SameDevice(snap, entity)
    /\ snap # entity
    /\ entity' = snap
    /\ pushed' = FALSE
    /\ last' = Did("state_changed", FALSE, {}, << >>, << >>, "", None)
    /\ UNCHANGED <<unit, self_chars, hc_homekit_to_hass, props, char>>

\* the platform calls update_state with the entity's state; a call made when
\* the state was pushed before repeats the identical snapshot
Pushed(r) ==
    /\ char' = r.char
    /\ pushed' = TRUE
    /\ last' = Did("update_state", pushed, r.writes, << >>, << >>, "", None)
    /\ UNCHANGED <<unit, entity, self_chars, hc_homekit_to_hass, props>>

UpdateState == Pushed(update_state(char, entity, self_chars, unit))

\* HomeKit writes char_values and the service's setter callback runs
Written(char_values, r) ==
    /\ last' = Did("set_chars", FALSE, {}, char_values, r.calls, r.error, r.high_low)
    /\ UNCHANGED <<unit, entity, self_chars, hc_homekit_to_hass, props, char, pushed>>

SetChars(char_values) ==
    Written(char_values, set_chars(char_values, entity, char, hc_homekit_to_hass, unit))

(***************************************************************************)
(* Inputs                                                                  *)
(***************************************************************************)
Units == {TEMP_CELSIUS, TEMP_FAHRENHEIT}

\* a Celsius temperature (a multiple of 0.5) in the unit u
InUnit(t, u) == IF u = TEMP_FAHRENHEIT THEN (9 * t) \div 5 + 320 ELSE t
OptInUnit(S, u) == {None} \cup {Some(InUnit(t, u)) : t \in S}

\* the entities of an input domain d: the values each attribute ranges over
Entities(d) ==
    {[state |-> st, supported_features |-> f, hvac_modes |-> m,
      min_temp |-> r[1], max_temp |-> r[2],
      temperature |-> t, target_temp_high |-> h, target_temp_low |-> l,
      current_temperature |-> o[1], hvac_action |-> o[2],
      humidity |-> o[3], current_humidity |-> o[4]] :
        st \in d.states, f \in d.features, m \in d.modes, r \in d.ranges,
        t \in d.temps, h \in d.highs, l \in d.lows, o \in d.others}

\* the states the entity e can change to in one state write of the platform:
\* its state, one of its setpoints, or its measurements change
Changes(e, d) ==
    {[e EXCEPT !.state = st] : st \in d.states}
    \cup {[e EXCEPT !.temperature = t] : t \in d.temps}
    \cup {[e EXCEPT !.target_temp_high = h] : h \in d.highs}
    \cup {[e EXCEPT !.target_temp_low = l] : l \in d.lows}
    \cup {[e EXCEPT !.current_temperature = o[1], !.hvac_action = o[2],
                    !.humidity = o[3], !.current_humidity = o[4]] : o \in d.others}

Domain(states, features, modes, ranges, temps, highs, lows, others) ==
    [states |-> states, features |-> features, modes |-> modes, ranges |-> ranges,
     temps |-> temps, highs |-> highs, lows |-> lows, others |-> others]

\* the writes of at most n characteristics among keys, a mode from modes, a
\* temperature from temps, a humidity from hums
WritesOf(keys, n, modes, temps, hums) ==
    UNION {{cv \in [K -> modes \cup temps \cup hums] :
               \A c \in K :
                  cv[c] \in (CASE c = CHAR_TARGET_HEATING_COOLING -> modes
                               [] c = CHAR_TARGET_HUMIDITY -> hums
                               [] OTHER -> temps)} :
           K \in {K \in SUBSET keys : K # {} /\ Cardinality(K) <= n}}

(***************************************************************************)
(* Spec: the accessory of every supported-mode list; the entity changes    *)
(* its state, the state is pushed, HomeKit writes the target mode          *)
(***************************************************************************)
NoSetpoint == {None}
NoRange == {<<None, None>>}
NoMeasurement == {<<None, "", None, None>>}
EntityStates == HvacModes \cup {"unavailable"}
ModeLists == {None} \cup {Some(S) : S \in SUBSET HvacModes}

ModeDomain ==
    Domain(EntityStates, {SUPPORT_TARGET_TEMPERATURE}, ModeLists, NoRange,
           NoSetpoint, NoSetpoint, NoSetpoint, NoMeasurement)

Init == \E e \in Entities(ModeDomain) : Construct(e, TEMP_CELSIUS)

ModeChanges == \E snap \in Changes(entity, ModeDomain) : StateChanged(snap)

ModeWriteSet == WritesOf({CHAR_TARGET_HEATING_COOLING}, 1, 0..3, {}, {})

ModeWrites == \E cv \in ModeWriteSet : SetChars(cv)

Next == ModeChanges \/ UpdateState \/ ModeWrites

Spec == Init /\ [][Next]_vars

(***************************************************************************)
(* SpecPush: update_state over snapshots with every attribute present or   *)
(* absent, in both units                                                   *)
(***************************************************************************)
SnapshotTemps == {0, 400}
ThresholdTemps == {0, 190, 230}
Measurements(u) ==
    {<<None, "", None, None>>, <<Some(InUnit(190, u)), "heating", Some(40), Some(45)>>}

PushDomain(u) ==
    Domain({"off", "heat", "cool", "heat_cool", "unavailable"},
           {SUPPORT_TARGET_TEMPERATURE,
            SUPPORT_TARGET_TEMPERATURE + SUPPORT_TARGET_TEMPERATURE_RANGE + SUPPORT_TARGET_HUMIDITY},
           {None, Some({"heat", "off"})}, NoRange,
           OptInUnit(SnapshotTemps, u), OptInUnit(ThresholdTemps, u),
           OptInUnit(ThresholdTemps, u), Measurements(u))

InitPush == \E u \in Units : \E e \in Entities(PushDomain(u)) : Construct(e, u)

SnapshotChanges == \E snap \in Changes(entity, PushDomain(unit)) : StateChanged(snap)

NextPush == SnapshotChanges \/ UpdateState

SpecPush == InitPush /\ [][NextPush]_vars

(***************************************************************************)
(* SpecWrite: HomeKit writes the target temperature and the thresholds of  *)
(* an entity with a temperature range                                      *)
(***************************************************************************)
MaxWriteKeys == 2
WriteTemps == {50, 150, 250}
WriteRanges(u) == {<<None, None>>, <<Some(InUnit(150, u)), Some(InUnit(300, u))>>}

WriteDomain(u) ==
    Domain({"heat", "cool"},
           {SUPPORT_TARGET_TEMPERATURE_RANGE}, {None}, WriteRanges(u),
           NoSetpoint, OptInUnit({300}, u), OptInUnit({120}, u), NoMeasurement)

InitWrite == \E u \in Units : \E e \in Entities(WriteDomain(u)) : Construct(e, u)

RangeChanges == \E snap \in Changes(entity, WriteDomain(unit)) : StateChanged(snap)

TemperatureWriteSet ==
    WritesOf({CHAR_TARGET_TEMPERATURE, CHAR_COOLING_THRESHOLD_TEMPERATURE,
              CHAR_HEATING_THRESHOLD_TEMPERATURE}, MaxWriteKeys, {}, WriteTemps, {})

TemperatureWrites == \E cv \in TemperatureWriteSet : SetChars(cv)

NextWrite == RangeChanges \/ UpdateState \/ TemperatureWrites

SpecWrite == InitWrite /\ [][NextWrite]_vars

(***************************************************************************)
(* SpecMixed: HomeKit writes several characteristics at once (the target   *)
(* mode, the temperatures, the humidity) to entities of every feature set  *)
(***************************************************************************)
MaxMixedKeys == 2
MixedTemps == {150, 250}
MixedHumidities == {40}
MixedFeatures ==
    {0, SUPPORT_TARGET_TEMPERATURE, SUPPORT_TARGET_TEMPERATURE_RANGE,
     SUPPORT_TARGET_TEMPERATURE + SUPPORT_TARGET_TEMPERATURE_RANGE + SUPPORT_TARGET_HUMIDITY}

MixedDomain(u) ==
    Domain({"off", "heat", "cool", "unavailable"}, MixedFeatures,
           {None, Some({"heat", "off"})}, NoRange,
           NoSetpoint, NoSetpoint, NoSetpoint, NoMeasurement)

InitMixed == \E u \in Units : \E e \in Entities(MixedDomain(u)) : Construct(e, u)

EntityChanges == \E snap \in Changes(entity, MixedDomain(unit)) : StateChanged(snap)

\* HomeKit only writes characteristics the service has
MixedWriteSet(ch) ==
    WritesOf(DOMAIN ch \ {CHAR_CURRENT_HEATING_COOLING, CHAR_CURRENT_TEMPERATURE,
                          CHAR_CURRENT_HUMIDITY, CHAR_TEMP_DISPLAY_UNITS},
             MaxMixedKeys, 0..3, MixedTemps, MixedHumidities)

MixedWrites == \E cv \in MixedWriteSet(char) : SetChars(cv)

NextMixed == EntityChanges \/ UpdateState \/ MixedWrites

SpecMixed == InitMixed /\ [][NextMixed]_vars

(***************************************************************************)
(* SpecGuard: update_state over snapshots whose attributes are absent,     *)
(* numbers or strings; the entity is Off or in Auto                        *)
(***************************************************************************)
OptOrText(S, u) == OptInUnit(S, u) \cup {Text}

\* every measurement a number, or one of them absent or a string
GuardMeasurements(u) ==
    LET t == Some(InUnit(190, u))
    IN  {<<t, "heating", Some(40), Some(45)>>, <<t, "", Some(40), Some(45)>>}
        \cup {<<x, "heating", Some(40), Some(45)>> : x \in {None, Text}}
        \cup {<<t, "heating", x, Some(45)>> : x \in {None, Text}}
        \cup {<<t, "heating", Some(40), x>> : x \in {None, Text}}

GuardDomain(u) ==
    Domain({"off", "heat_cool"},
           {SUPPORT_TARGET_TEMPERATURE,
            SUPPORT_TARGET_TEMPERATURE + SUPPORT_TARGET_TEMPERATURE_RANGE + SUPPORT_TARGET_HUMIDITY},
           {None}, NoRange,
           OptOrText({220}, u), OptOrText({250}, u), OptOrText({170}, u),
           GuardMeasurements(u))

InitGuard == \E u \in Units : \E e \in Entities(GuardDomain(u)) : Construct(e, u)

AttributeChanges == \E snap \in Changes(entity, GuardDomain(unit)) : StateChanged(snap)

NextGuard == AttributeChanges \/ UpdateState

SpecGuard == InitGuard /\ [][NextGuard]_vars

(***************************************************************************)
(* WaterHeater accessory: one mode (Heat), one setpoint                    *)
(***************************************************************************)
DEFAULT_MAX_TEMP_WATER_HEATER == 600
DEFAULT_MIN_TEMP_WATER_HEATER == 400
SERVICE_SET_TEMPERATURE_WATER_HEATER == "water_heater.set_temperature"

\* the values of {"Heat": 1}
HC_HOMEKIT_VALID_MODES_WATER_HEATER == {HC_HEAT_COOL_HEAT}

\* {c: s for s, c in HC_HASS_TO_HOMEKIT.items()}: of the modes with the same
\* HomeKit value the one listed last stays
HC_HOMEKIT_TO_HASS ==
    [c \in {HC_HASS_TO_HOMEKIT[s] : s \in HvacModes} |->
        HvacModeOrder[CHOOSE i \in 1..Len(HvacModeOrder) :
            /\ HC_HASS_TO_HOMEKIT[HvacModeOrder[i]] = c
            /\ \A j \in 1..Len(HvacModeOrder) :
                  HC_HASS_TO_HOMEKIT[HvacModeOrder[j]] = c => j <= i]]

WaterHeater_get_temperature_range(e, u) ==
    LET max_temp == IF Truthy(e.max_temp)
                    THEN temperature_to_homekit(e.max_temp[1], u)
                    ELSE DEFAULT_MAX_TEMP_WATER_HEATER
        min_temp == IF Truthy(e.min_temp)
                    THEN temperature_to_homekit(e.min_temp[1], u)
                    ELSE DEFAULT_MIN_TEMP_WATER_HEATER
    IN  [min_temp |-> RoundHalf(min_temp), max_temp |-> RoundHalf(max_temp)]

\* the value every configure_char call of WaterHeater.__init__ gives
WaterHeaterChars ==
    [c \in BaseChars |->
        CASE c = CHAR_CURRENT_HEATING_COOLING -> 1
          [] c = CHAR_TARGET_HEATING_COOLING -> 1
          [] c = CHAR_CURRENT_TEMPERATURE -> 500
          [] c = CHAR_TARGET_TEMPERATURE -> 500
          [] c = CHAR_TEMP_DISPLAY_UNITS -> 0]

WaterHeaterProps(e, u) ==
    LET range == WaterHeater_get_temperature_range(e, u)
    IN  [valid_values |-> HC_HOMEKIT_VALID_MODES_WATER_HEATER,
         min_value |-> range.min_temp, max_value |-> range.max_temp]

\* the temperature step made to write the current temperature as well
WaterHeaterTemperatureBoth(acc, snap, u) ==
    IF IsNumber(snap.temperature)
    THEN SetIfChanged(SetIfChanged(acc, CHAR_CURRENT_TEMPERATURE,
                                   temperature_to_homekit(snap.temperature[1], u)),
                      CHAR_TARGET_TEMPERATURE,
                      temperature_to_homekit(snap.temperature[1], u))
    ELSE acc

\* the temperature step: the CURRENT temperature characteristic is compared,
\* the target temperature characteristic is written
WaterHeaterTemperature(acc, snap, u) ==
    IF IsNumber(snap.temperature)
    THEN LET temperature == temperature_to_homekit(snap.temperature[1], u)
         IN  IF temperature # acc.char[CHAR_CURRENT_TEMPERATURE]
             THEN SetValue(acc, CHAR_TARGET_TEMPERATURE, temperature)
             ELSE acc
    ELSE acc

WaterHeaterMode(acc, snap) ==
    IF snap.state # "" /\ acc.char[CHAR_TARGET_HEATING_COOLING] # 1
    THEN SetValue(acc, CHAR_TARGET_HEATING_COOLING, 1)
    ELSE acc

\* WaterHeater.update_state(new_state)
WaterHeater_update_state(ch, snap, u) ==
    WaterHeaterMode(
        UpdateDisplayUnits(
            WaterHeaterTemperature([char |-> ch, writes |-> {}], snap, u), u), snap)

\* a write of HomeKit reaches the characteristic before its setter callback
\* runs, or only the callback sees it
ClientUpdateValue(ch, c, value, stored) == IF stored THEN [ch EXCEPT ![c] = value] ELSE ch

\* WaterHeater.set_heat_cool(value): the characteristics after the call, those
\* it wrote, and the exception it ends with
set_heat_cool(ch, value) ==
    IF value \notin DOMAIN HC_HOMEKIT_TO_HASS
    THEN [char |-> ch, writes |-> {}, error |-> "KeyError", calls |-> << >>]
    ELSE IF HC_HOMEKIT_TO_HASS[value] # "heat" /\ ch[CHAR_TARGET_HEATING_COOLING] # 1
    THEN [char |-> [ch EXCEPT ![CHAR_TARGET_HEATING_COOLING] = 1],
          writes |-> {CHAR_TARGET_HEATING_COOLING}, error |-> "", calls |-> << >>]
    ELSE [char |-> ch, writes |-> {}, error |-> "", calls |-> << >>]

\* WaterHeater.set_target_temperature(value)
set_target_temperature(ch, value, u) ==
    [char |-> ch, writes |-> {}, error |-> "",
     calls |-> <<Call(SERVICE_SET_TEMPERATURE_WATER_HEATER, None,
                      Some(temperature_to_states(value, u)), None, None, None, << >>)>>]

\* WaterHeater.__init__ on the entity e with the configured unit u
WaterHeaterConstruct(e, u) ==
    /\ unit = u
    /\ entity = e
    /\ self_chars = {}
    /\ hc_homekit_to_hass = << >>
    /\ props = WaterHeaterProps(e, u)
    /\ Constructed(WaterHeater_update_state(WaterHeaterChars, e, u))
    /\ pushed = TRUE

WaterHeaterUpdateState == Pushed(WaterHeater_update_state(char, entity, unit))

\* a setter callback of the water heater has run on the written value
CallbackDone(op, c, value, r) ==
    /\ char' = r.char
    /\ last' = Did(op, FALSE, r.writes, [k \in {c} |-> value], r.calls, r.error, None)
    /\ UNCHANGED <<unit, entity, self_chars, hc_homekit_to_hass, props, pushed>>

SetHeatCool(value, stored) ==
    CallbackDone("set_heat_cool", CHAR_TARGET_HEATING_COOLING, value,
        set_heat_cool(ClientUpdateValue(char, CHAR_TARGET_HEATING_COOLING, value, stored),
                      value))

SetTargetTemperature(value, stored) ==
    CallbackDone("set_target_temperature", CHAR_TARGET_TEMPERATURE, value,
        set_target_temperature(ClientUpdateValue(char, CHAR_TARGET_TEMPERATURE, value, stored),
                               value, unit))

(***************************************************************************)
(* SpecWaterHeater: the water heater's state and temperature change, are   *)
(* pushed, and HomeKit writes the mode and the target temperature          *)
(***************************************************************************)
WaterHeaterStates == {"", "eco", "off"}
WaterHeaterTemps == {500, 550}
WaterHeaterModeWrites == 0..4
WaterHeaterTempWrites == {450, 600}

WaterHeaters(u) ==
    {[state |-> st, temperature |-> t, min_temp |-> None, max_temp |-> None] :
        st \in WaterHeaterStates, t \in OptInUnit(WaterHeaterTemps, u)}

InitWaterHeater == \E u \in Units : \E e \in WaterHeaters(u) : WaterHeaterConstruct(e, u)

WaterHeaterChanges ==
    \E snap \in WaterHeaters(unit) :
        /\ snap # entity
        /\ entity' = snap
        /\ pushed' = FALSE
        /\ last' = Did("state_changed", FALSE, {}, << >>, << >>, "", None)
        /\ UNCHANGED <<unit, self_chars, hc_homekit_to_hass, props, char>>

HeatCoolWrites == \E value \in WaterHeaterModeWrites, stored \in BOOLEAN : SetHeatCool(value, stored)

TargetTemperatureWrites ==
    \E value \in WaterHeaterTempWrites, stored \in BOOLEAN : SetTargetTemperature(value, stored)

NextWaterHeater ==
    WaterHeaterChanges \/ WaterHeaterUpdateState \/ HeatCoolWrites \/ TargetTemperatureWrites

SpecWaterHeater == InitWaterHeater /\ [][NextWaterHeater]_vars

(***************************************************************************)
(* Properties                                                              *)
(***************************************************************************)
Cooling == CHAR_COOLING_THRESHOLD_TEMPERATURE
Heating == CHAR_HEATING_THRESHOLD_TEMPERATURE
TargetMode == CHAR_TARGET_HEATING_COOLING
SupportedModes == HcModes(entity.hvac_modes)

\* C1: an update_state that repeats the snapshot of the call before it
\* writes no characteristic.
C1_RepeatWritesNothing ==
    (last.op = "update_state" /\ last.repeat) => last.writes = {}

\* C2: the target temperature and the two thresholds are always within the
\* minimum and maximum declared for them at construction.
C2_WithinDeclaredRange ==
    \A c \in {CHAR_TARGET_TEMPERATURE, Cooling, Heating} \cap DOMAIN char :
        props.min_value <= char[c] /\ char[c] <= props.max_value

\* C3: the target mode characteristic always holds one of the values declared
\* legal for it, the keys of the reverse mode map.
C3_TargetModeIsLegal ==
    /\ props.valid_values = DOMAIN hc_homekit_to_hass
    /\ char[TargetMode] \in props.valid_values

\* C4: the bounds a threshold write sends satisfy low <= high and lie within
\* the entity's temperature range.
C4_BoundsOrderedInRange ==
    (/\ last.op = "set_chars"
     /\ last.error = ""
     /\ (Cooling \in DOMAIN last.req \/ Heating \in DOMAIN last.req))
    => /\ Len(last.calls) = 1
       /\ LET low == last.calls[1].target_temp_low[1]
              high == last.calls[1].target_temp_high[1]
              range == get_temperature_range(entity, unit)
          IN  /\ low <= high
              /\ temperature_to_states(range.min_temp, unit) <= low
              /\ high <= temperature_to_states(range.max_temp, unit)

\* C5: a write of the cooling threshold alone, below the heating threshold's
\* value, gives low = c - 5 and high = c before the clamp; a write of the
\* heating threshold alone, above the cooling threshold's value, gives
\* high = h + 5 and low = h; a written threshold that does not cross the other
\* bound leaves that bound at the characteristic's value.
C5_DeadbandShift ==
    (last.op = "set_chars" /\ last.error = "")
    => /\ DOMAIN last.req = {Cooling}
          => LET c == last.req[Cooling]
             IN  last.high_low = IF c < char[Heating] THEN <<c, c - 50>>
                                 ELSE <<c, char[Heating]>>
       /\ DOMAIN last.req = {Heating}
          => LET h == last.req[Heating]
             IN  last.high_low = IF h > char[Cooling] THEN <<h + 50, h>>
                                 ELSE <<char[Cooling], h>>

\* the example of the specification: low 19, high 23, cooling written 15
C5_Witness ==
    /\ last.op = "set_chars"
    /\ DOMAIN last.req = {Cooling}
    /\ last.req[Cooling] = 150
    /\ char[Heating] = 190 /\ char[Cooling] = 230
    /\ last.high_low = <<150, 100>>
    /\ Len(last.calls) = 1

ModeOnlyWrite == last.op = "set_chars" /\ DOMAIN last.req = {TargetMode}

SetHvacModeCall(mode) ==
    Call(SERVICE_SET_HVAC_MODE_THERMOSTAT, Some(mode), None, None, None, None, <<TargetMode>>)

\* C6 as stated, read for the writes that return: a write of the target mode
\* alone that equals the value the target mode characteristic holds makes no
\* service call; one that differs from it stages set_hvac_mode with the
\* reverse-mapped mode.
C6_EchoOfCharacteristic ==
    (ModeOnlyWrite /\ last.error = "")
    => IF last.req[TargetMode] = char[TargetMode]
       THEN last.calls = << >>
       ELSE /\ last.req[TargetMode] \in DOMAIN hc_homekit_to_hass
            /\ last.calls = <<SetHvacModeCall(hc_homekit_to_hass[last.req[TargetMode]])>>

\* C6 amended: a write of the target mode alone that equals the HomeKit value
\* of the entity's state in the state machine makes no service call and
\* raises nothing; one that differs from it and has an entry in the reverse
\* map makes one set_hvac_mode call with the reverse-mapped mode.
C6_EchoOfEntityState ==
    (ModeOnlyWrite /\ entity.state \in DOMAIN HC_HASS_TO_HOMEKIT)
    => IF last.req[TargetMode] = HC_HASS_TO_HOMEKIT[entity.state]
       THEN last.calls = << >> /\ last.error = ""
       ELSE last.req[TargetMode] \in DOMAIN hc_homekit_to_hass
            => /\ last.error = ""
               /\ last.calls = <<SetHvacModeCall(hc_homekit_to_hass[last.req[TargetMode]])>>

\* the entity changed its state, the change is not pushed yet, and HomeKit
\* re-sends the entity's new mode, which the characteristic does not hold yet
C6_Witness ==
    /\ ModeOnlyWrite
    /\ ~ pushed
    /\ entity.state \in DOMAIN HC_HASS_TO_HOMEKIT
    /\ last.req[TargetMode] = HC_HASS_TO_HOMEKIT[entity.state]
    /\ last.req[TargetMode] # char[TargetMode]
    /\ last.calls = << >>

\* C7: after update_state on a snapshot with a range and numeric high and
\* low, the cooling threshold is the converted high and the heating threshold
\* the converted low; and a snapshot in an Auto mode without a target
\* temperature leaves the target temperature unwritten.
C7_ThresholdsMirrorSnapshot ==
    (/\ last.op = "update_state"
     /\ HasFeature(entity.supported_features, SUPPORT_TARGET_TEMPERATURE_RANGE)
     /\ IsNumber(entity.target_temp_high)
     /\ IsNumber(entity.target_temp_low))
    => /\ char[Cooling] = temperature_to_homekit(entity.target_temp_high[1], unit)
       /\ char[Heating] = temperature_to_homekit(entity.target_temp_low[1], unit)
       /\ (entity.state \in {"auto", "heat_cool"} /\ entity.temperature = None)
          => CHAR_TARGET_TEMPERATURE \notin last.writes

\* C8: every supported mode m has its HomeKit value in the reverse map, and
\* the entry is a supported mode with the same HomeKit value.
C8_ModeRoundTrip ==
    \A m \in SupportedModes :
        LET k == HC_HASS_TO_HOMEKIT[m]
        IN  /\ k \in DOMAIN hc_homekit_to_hass
            /\ hc_homekit_to_hass[k] \in SupportedModes
            /\ HC_HASS_TO_HOMEKIT[hc_homekit_to_hass[k]] = k

\* dry and fan_only are supported and cool is not: both map to Cool,
\* Cool maps back to one of them, and a write of Cool asks for that mode
C8_Witness ==
    /\ {"dry", "fan_only"} \subseteq SupportedModes
    /\ "cool" \notin SupportedModes
    /\ hc_homekit_to_hass[HC_HEAT_COOL_COOL] \in {"dry", "fan_only"}
    /\ ModeOnlyWrite
    /\ last.req[TargetMode] = HC_HEAT_COOL_COOL
    /\ last.calls = <<SetHvacModeCall(hc_homekit_to_hass[HC_HEAT_COOL_COOL])>>

\* C9: with heat_cool and auto both supported the Auto entry is heat_cool; the
\* Auto entry is auto only when heat_cool is not supported.
C9_HeatCoolOverAuto ==
    /\ {"heat_cool", "auto"} \subseteq SupportedModes
       => /\ HC_HEAT_COOL_AUTO \in DOMAIN hc_homekit_to_hass
          /\ hc_homekit_to_hass[HC_HEAT_COOL_AUTO] = "heat_cool"
    /\ (/\ HC_HEAT_COOL_AUTO \in DOMAIN hc_homekit_to_hass
        /\ hc_homekit_to_hass[HC_HEAT_COOL_AUTO] = "auto")
       => "heat_cool" \notin SupportedModes

\* the list of the specification's example, and a write of Auto
C9_Witness ==
    /\ SupportedModes = {"heat", "cool", "heat_cool", "auto"}
    /\ hc_homekit_to_hass[HC_HEAT_COOL_AUTO] = "heat_cool"
    /\ ModeOnlyWrite
    /\ last.calls = <<SetHvacModeCall("heat_cool")>>

\* C10: with cool supported the Cool entry is cool, whatever else is
\* supported; the Cool entry is dry or fan_only only when cool is not.
C10_CoolOverDry ==
    /\ "cool" \in SupportedModes
       => /\ HC_HEAT_COOL_COOL \in DOMAIN hc_homekit_to_hass
          /\ hc_homekit_to_hass[HC_HEAT_COOL_COOL] = "cool"
    /\ (/\ HC_HEAT_COOL_COOL \in DOMAIN hc_homekit_to_hass
        /\ hc_homekit_to_hass[HC_HEAT_COOL_COOL] \in {"dry", "fan_only"})
       => "cool" \notin SupportedModes

\* the list of the specification's example, and a write of Cool
C10_Witness ==
    /\ SupportedModes = {"heat", "cool", "dry"}
    /\ hc_homekit_to_hass[HC_HEAT_COOL_COOL] = "cool"
    /\ ModeOnlyWrite
    /\ last.calls = <<SetHvacModeCall("cool")>>

TargetTemp == CHAR_TARGET_TEMPERATURE
TargetHumidity == CHAR_TARGET_HUMIDITY
KnownState == entity.state \in DOMAIN HC_HASS_TO_HOMEKIT
IsClimateCall(c) ==
    c.service \in {SERVICE_SET_TEMPERATURE_THERMOSTAT, SERVICE_SET_HVAC_MODE_THERMOSTAT}
IsHumidityCall(c) == c.service = SERVICE_SET_HUMIDITY
ClimateCalls == SelectSeq(last.calls, IsClimateCall)
HumidityCalls == SelectSeq(last.calls, IsHumidityCall)

\* C11: a write makes at most one climate call and at most one set_humidity
\* call; the set_humidity call is made exactly when the target humidity is in
\* the write, and carries the humidity alone, which the climate call never
\* carries.
C11_HumidityCallIffWritten ==
    last.op = "set_chars"
    => /\ Len(ClimateCalls) <= 1
       /\ Len(HumidityCalls) <= 1
       /\ Len(HumidityCalls) = 1 <=> TargetHumidity \in DOMAIN last.req
       /\ \A i \in 1..Len(ClimateCalls) : ClimateCalls[i].humidity = None
       /\ \A i \in 1..Len(HumidityCalls) :
             HumidityCalls[i] = HumidityCall(last.req[TargetHumidity])

\* a write that, by what it holds, stages nothing: no humidity and no
\* threshold, the target mode only if it is the entity's mode, the target
\* temperature only if the entity has no setpoint at all or has a range only
\* and is in Off or Auto
NoChangeWrite ==
    /\ last.op = "set_chars"
    /\ DOMAIN last.req \subseteq {TargetMode, TargetTemp}
    /\ TargetMode \in DOMAIN last.req
       => KnownState /\ last.req[TargetMode] = HC_HASS_TO_HOMEKIT[entity.state]
    /\ TargetTemp \in DOMAIN last.req
       => /\ ~ HasFeature(entity.supported_features, SUPPORT_TARGET_TEMPERATURE)
          /\ \/ ~ HasFeature(entity.supported_features, SUPPORT_TARGET_TEMPERATURE_RANGE)
             \/ KnownState /\ HC_HASS_TO_HOMEKIT[entity.state]
                                 \in {HC_HEAT_COOL_OFF, HC_HEAT_COOL_AUTO}

\* C12: a write that stages no change makes no service call and raises no
\* error.
C12_NoChangeIsSilent ==
    NoChangeWrite => last.calls = << >> /\ last.error = ""

AfterUpdate == last.op \in {"init", "update_state"}
\* a step of update_state whose attribute x is not a number left c alone
Skipped(x, c) ==
    (c \in DOMAIN char /\ ~ IsNumber(x)) => (c \notin last.writes /\ char[c] # STRING_VALUE)
\* a step of update_state whose attribute x is a number made c hold v
Applied(x, c, v) == (c \in DOMAIN char /\ IsNumber(x)) => char[c] = v

\* C13: update_state skips the write of every field whose attribute is absent
\* or not a number, and the characteristic never holds a value that is not a
\* number, while the steps whose attributes are numbers apply.  The target
\* temperature counts as absent when no threshold stands in for it.
C13_StepsGuarded ==
    AfterUpdate
    => /\ entity.hvac_action = "" => CHAR_CURRENT_HEATING_COOLING \notin last.writes
       /\ Skipped(entity.current_temperature, CHAR_CURRENT_TEMPERATURE)
       /\ Skipped(entity.current_humidity, CHAR_CURRENT_HUMIDITY)
       /\ Skipped(entity.humidity, TargetHumidity)
       /\ Skipped(entity.target_temp_high, Cooling)
       /\ Skipped(entity.target_temp_low, Heating)
       /\ (~ HasFeature(entity.supported_features, SUPPORT_TARGET_TEMPERATURE_RANGE)
           \/ char[TargetMode] \notin {HC_HEAT_COOL_HEAT, HC_HEAT_COOL_COOL})
          => Skipped(entity.temperature, TargetTemp)
       /\ Applied(entity.current_temperature, CHAR_CURRENT_TEMPERATURE,
                  temperature_to_homekit(entity.current_temperature[1], unit))
       /\ Applied(entity.current_humidity, CHAR_CURRENT_HUMIDITY, entity.current_humidity[1])
       /\ Applied(entity.humidity, TargetHumidity, entity.humidity[1])
       /\ Applied(entity.target_temp_low, Heating,
                  temperature_to_homekit(entity.target_temp_low[1], unit))

\* C14: set_heat_cool accepts every written value without error and makes no
\* service call, and the target mode of the water heater is always Heat.
C14_PinnedToHeat ==
    /\ last.op = "set_heat_cool" => last.error = "" /\ last.calls = << >>
    /\ char[TargetMode] = HC_HEAT_COOL_HEAT

BoundOfMode(e, u) ==
    CASE HC_HASS_TO_HOMEKIT[e.state] = HC_HEAT_COOL_HEAT -> OptToHomekit(e.target_temp_low, u)
      [] HC_HASS_TO_HOMEKIT[e.state] = HC_HEAT_COOL_COOL -> OptToHomekit(e.target_temp_high, u)
      [] OTHER -> None

\* C16: update_state on a snapshot with a range and without a target
\* temperature derives the target temperature from the mode of that snapshot
\* (Heat: the converted low, Cool: the converted high), whatever mode was
\* displayed before, and writes it only if it is true and differs from the
\* characteristic's value.
C16_TargetFollowsSnapshotMode ==
    [][(/\ last'.op = "update_state"
        /\ HasFeature(entity.supported_features, SUPPORT_TARGET_TEMPERATURE_RANGE)
        /\ ~ IsNumber(entity.temperature)
        /\ KnownState)
       => IF Truthy(BoundOfMode(entity, unit)) /\ char[TargetTemp] # BoundOfMode(entity, unit)[1]
          THEN /\ TargetTemp \in last'.writes
               /\ char'[TargetTemp] = BoundOfMode(entity, unit)[1]
          ELSE /\ TargetTemp \notin last'.writes
               /\ char'[TargetTemp] = char[TargetTemp]]_vars

\* one update_state has changed the displayed mode to Heat and has taken the
\* target temperature from the low bound
C16_Witness ==
    /\ last.op = "update_state"
    /\ HasFeature(entity.supported_features, SUPPORT_TARGET_TEMPERATURE_RANGE)
    /\ entity.temperature = None
    /\ entity.state = "heat"
    /\ IsNumber(entity.target_temp_low)
    /\ {TargetMode, TargetTemp} \subseteq last.writes
    /\ char[TargetTemp] = temperature_to_homekit(entity.target_temp_low[1], unit)

\* what a write changes, read off the write and the entity's state: the mode,
\* the single setpoint, and the thresholds, written or standing in for the
\* target temperature of an entity with a range only
Single == HasFeature(entity.supported_features, SUPPORT_TARGET_TEMPERATURE)
RangeOnly ==
    ~ Single /\ HasFeature(entity.supported_features, SUPPORT_TARGET_TEMPERATURE_RANGE)
EntityMode == HC_HASS_TO_HOMEKIT[entity.state]
ModeChanged == TargetMode \in DOMAIN last.req /\ last.req[TargetMode] # EntityMode
SetpointChanged == TargetTemp \in DOMAIN last.req /\ Single
RoutedToHeating ==
    /\ TargetTemp \in DOMAIN last.req /\ RangeOnly
    /\ EntityMode = HC_HEAT_COOL_HEAT /\ Heating \notin DOMAIN last.req
RoutedToCooling ==
    /\ TargetTemp \in DOMAIN last.req /\ RangeOnly
    /\ EntityMode = HC_HEAT_COOL_COOL /\ Cooling \notin DOMAIN last.req
ChangedFields ==
    (IF ModeChanged THEN {TargetMode} ELSE {})
    \cup (IF SetpointChanged THEN {TargetTemp} ELSE {})
    \cup (IF Cooling \in DOMAIN last.req \/ RoutedToCooling THEN {Cooling} ELSE {})
    \cup (IF Heating \in DOMAIN last.req \/ RoutedToHeating THEN {Heating} ELSE {})
ReturnedWrite == last.op = "set_chars" /\ last.error = "" /\ KnownState

\* C17: a write that changes more than one field makes exactly one climate
\* call, of the service set_temperature, whose parameters are those of every
\* change (the mode, the temperature, both bounds) and whose description has
\* one entry for every changed field.
C17_OneMergedCall ==
    (ReturnedWrite /\ Cardinality(ChangedFields) >= 2)
    => /\ Len(ClimateCalls) = 1
       /\ LET c == ClimateCalls[1]
          IN  /\ c.service = SERVICE_SET_TEMPERATURE_THERMOSTAT
              /\ c.hvac_mode = IF ModeChanged
                               THEN Some(hc_homekit_to_hass[last.req[TargetMode]]) ELSE None
              /\ c.temperature = IF SetpointChanged
                                 THEN Some(temperature_to_states(last.req[TargetTemp], unit))
                                 ELSE None
              /\ (c.target_temp_high # None) <=> (ChangedFields \cap {Cooling, Heating} # {})
              /\ (c.target_temp_low # None) <=> (ChangedFields \cap {Cooling, Heating} # {})
              /\ Len(c.events) = Cardinality(ChangedFields)
              /\ {c.events[i] : i \in 1..Len(c.events)} = ChangedFields

\* a differing mode and a target temperature in one write: one set_temperature
\* call that carries the mode as well
C17_Witness ==
    /\ ReturnedWrite
    /\ ModeChanged /\ SetpointChanged
    /\ Len(last.calls) = 1
    /\ last.calls[1].service = SERVICE_SET_TEMPERATURE_THERMOSTAT
    /\ last.calls[1].hvac_mode # None
    /\ last.calls[1].temperature # None

\* C18: a target temperature written to an entity with a single setpoint is
\* sent as the converted temperature and never becomes a threshold; written
\* to an entity with a range only it becomes the heating threshold when the
\* entity is in Heat and the cooling threshold when it is in Cool, unless that
\* threshold is in the write, and nothing otherwise.
C18_TargetTemperatureRouting ==
    (ReturnedWrite /\ TargetTemp \in DOMAIN last.req)
    => /\ Single
          => /\ Len(ClimateCalls) = 1
             /\ ClimateCalls[1].temperature
                   = Some(temperature_to_states(last.req[TargetTemp], unit))
             /\ DOMAIN last.req \cap {Cooling, Heating} = {}
                => last.high_low = None /\ ClimateCalls[1].target_temp_low = None
                                        /\ ClimateCalls[1].target_temp_high = None
       /\ ~ Single => \A i \in 1..Len(ClimateCalls) : ClimateCalls[i].temperature = None
       /\ (RangeOnly /\ EntityMode = HC_HEAT_COOL_HEAT)
          => last.high_low[2] = IF Heating \in DOMAIN last.req
                                THEN last.req[Heating] ELSE last.req[TargetTemp]
       /\ (RangeOnly /\ EntityMode = HC_HEAT_COOL_COOL /\ Heating \notin DOMAIN last.req)
          => last.high_low[1] = IF Cooling \in DOMAIN last.req
                                THEN last.req[Cooling] ELSE last.req[TargetTemp]
       /\ (~ Single /\ ~ (RangeOnly /\ EntityMode \in {HC_HEAT_COOL_HEAT, HC_HEAT_COOL_COOL})
           /\ DOMAIN last.req \cap {Cooling, Heating} = {})
          => last.high_low = None

\* an entity with a range only, in Heat: the written target temperature is
\* sent as the low bound
C18_Witness ==
    /\ ReturnedWrite
    /\ DOMAIN last.req = {TargetTemp}
    /\ RangeOnly /\ EntityMode = HC_HEAT_COOL_HEAT
    /\ last.high_low[2] = last.req[TargetTemp]
    /\ Len(last.calls) = 1
    /\ last.calls[1].target_temp_low # None

\* C19: a write whose target mode differs from the entity's mode and has no
\* entry in the reverse map ends in an error, with no service call made and
\* no characteristic written; a value that has an entry never does.
C19_UnsupportedModeFails ==
    (last.op = "set_chars" /\ KnownState /\ ModeChanged)
    => IF last.req[TargetMode] \in DOMAIN hc_homekit_to_hass
       THEN last.error = ""
       ELSE last.error = "KeyError" /\ last.calls = << >> /\ last.writes = {}

\* Cool is written to an entity that supports heat and off only, together
\* with a humidity: nothing is called
C19_Witness ==
    /\ last.op = "set_chars"
    /\ KnownState
    /\ DOMAIN hc_homekit_to_hass = {HC_HEAT_COOL_OFF, HC_HEAT_COOL_HEAT}
    /\ TargetMode \in DOMAIN last.req
    /\ last.req[TargetMode] = HC_HEAT_COOL_COOL
    /\ last.error = "KeyError"
    /\ last.calls = << >>

HasThresholds == {Cooling, Heating} \subseteq DOMAIN char
ConvertedHigh == temperature_to_homekit(entity.target_temp_high[1], unit)
ConvertedLow == temperature_to_homekit(entity.target_temp_low[1], unit)

\* C20 as stated: the heating threshold characteristic is the one compared and
\* the one written in the cooling branch as in the heating branch, so that
\* update_state never writes the cooling threshold characteristic.
C20_HeatingWrittenForBoth ==
    AfterUpdate => Cooling \notin last.writes

\* C20 amended: in the cooling branch the heating threshold characteristic's
\* value is the one compared with the converted target_temp_high, and the
\* cooling threshold characteristic is the one written; the heating branch
\* compares and writes the heating threshold characteristic.
C20_HeatingComparedCoolingWritten ==
    [][(last'.op = "update_state" /\ HasThresholds)
       => /\ Cooling \in last'.writes
             <=> (IsNumber(entity.target_temp_high) /\ char[Heating] # ConvertedHigh)
          /\ char'[Cooling] = IF Cooling \in last'.writes THEN ConvertedHigh ELSE char[Cooling]
          /\ Heating \in last'.writes
             <=> (IsNumber(entity.target_temp_low) /\ char[Heating] # ConvertedLow)
          /\ char'[Heating] = IF Heating \in last'.writes THEN ConvertedLow ELSE char[Heating]]_vars

\* update_state repeats a snapshot and writes the cooling threshold again,
\* with the value it holds already, because the heating threshold differs
C20_Witness ==
    /\ last.op = "update_state"
    /\ last.repeat
    /\ HasThresholds
    /\ IsNumber(entity.target_temp_high)
    /\ last.writes = {Cooling}
    /\ char[Cooling] = ConvertedHigh
    /\ char[Heating] # ConvertedHigh

\* C21: after the water heater's update_state on a numeric temperature the
\* target temperature is the converted value, and an update_state that
\* repeats the snapshot writes nothing.
C21_WaterHeaterMirrorsTarget ==
    /\ (AfterUpdate /\ IsNumber(entity.temperature))
       => char[TargetTemp] = temperature_to_homekit(entity.temperature[1], unit)
    /\ (last.op = "update_state" /\ last.repeat) => last.writes = {}

\* C22: every entry k -> m of the reverse map has m supported and mapped to
\* k; k is a key exactly when a supported mode maps to k; and the values
\* declared legal for the target mode are the keys.
C22_ReverseMapSound ==
    /\ \A k \in DOMAIN hc_homekit_to_hass :
          /\ hc_homekit_to_hass[k] \in SupportedModes
          /\ HC_HASS_TO_HOMEKIT[hc_homekit_to_hass[k]] = k
    /\ DOMAIN hc_homekit_to_hass
          = {HC_HASS_TO_HOMEKIT[m] : m \in SupportedModes \cap HvacModes}
    /\ props.valid_values = DOMAIN hc_homekit_to_hass

\* an accessory built for a list in which both preferences apply and heat
\* and off are missing
C22_Witness ==
    /\ last.op = "init"
    /\ SupportedModes = {"cool", "dry", "fan_only", "auto", "heat_cool"}
    /\ DOMAIN hc_homekit_to_hass = {HC_HEAT_COOL_COOL, HC_HEAT_COOL_AUTO}
    /\ props.valid_values = {HC_HEAT_COOL_COOL, HC_HEAT_COOL_AUTO}

\* C23: a write without the target mode returns and makes its calls whatever
\* the entity's state is: the set_humidity call for a written humidity, the
\* climate call for a temperature written to an entity with a single
\* setpoint.
C23_WriteIgnoresEntityState ==
    (last.op = "set_chars" /\ TargetMode \notin DOMAIN last.req)
    => /\ last.error = ""
       /\ TargetHumidity \in DOMAIN last.req => Len(HumidityCalls) = 1
       /\ (TargetTemp \in DOMAIN last.req /\ Single) => Len(ClimateCalls) = 1

====
